---- MODULE Spec2Model ----
(***************************************************************************)
(* brickschema/validate.py: class Validate, the wrapper around the SHACL   *)
(* engine that regroups the engine's flat results graph into one graph per *)
(* violation and attaches the offending data-graph triple(s) to each.      *)
(*                                                                         *)
(* A Python string (URIRef, BNode, prefix-less name) is a sequence of      *)
(* tokens; "#" and "DomainShape" are tokens of their own, so str.split,    *)
(* str.endswith, slicing and + are computed on the sequence.  A triple is  *)
(* a record [s, p, o, g]; g is the set of triples of the Graph object that *)
(* stands at the object position (empty for an ordinary term).  A Graph is *)
(* [triples, ns] with ns the list that Graph.namespaces() yields.          *)
(***************************************************************************)
EXTENDS Naturals, Sequences, FiniteSets, TLC

VARIABLES attachOffender, namespaceDict, violationDict, data_graph,
          results_graph, conforms, results_text, ret, lastOp

vars == <<attachOffender, namespaceDict, violationDict, data_graph,
          results_graph, conforms, results_text, ret, lastOp>>

\* ------------------------------------------------------------- bounds
\* Largest number of violation triples the engine puts in a results graph.
MaxTriples == 6
\* Largest number of attachments on one violation before re-resolution stops.
MaxAttachments == 3

\* ---------------------------------------------------- strings and terms
None == <<"None">>
EmptyStr == <<>>
NoError == "ok"

SHns == <<"http://www.w3.org/ns/shacl", "#">>
BRICKns == <<"https://brickschema.org/schema/1.1/Brick", "#">>
BSHns == <<"https://brickschema.org/schema/1.1/BrickShape", "#">>
RDFSns == <<"http://www.w3.org/2000/01/rdf-schema", "#">>
EXns == <<"http://example.com/building", "#">>
OLDns == <<"https://brickschema.org/schema/1.0.3/Brick", "#">>
SHALTns == <<"http://example.com/shapes", "#">>
URNns == <<"urn:plant", "#">>

\* SH.result and BSH['offendingTriple'] of namespaces.py
SHresult == SHns \o <<"result">>
OffendingTriple == BSHns \o <<"offendingTriple">>
DomainShapeSuffix == <<"DomainShape">>

\* bool(x) of a term or None: None and the empty string are false
Truthy(x) == x # None /\ x # EmptyStr

\* str.split(sep): the list of parts between the occurrences of sep
RECURSIVE SplitFrom(_, _, _)
SplitFrom(str, sep, cur) ==
    IF str = <<>> THEN <<cur>>
    ELSE IF Head(str) = sep THEN <<cur>> \o SplitFrom(Tail(str), sep, <<>>)
    ELSE SplitFrom(Tail(str), sep, Append(cur, Head(str)))

Split(str, sep) == SplitFrom(str, sep, <<>>)

\* str.endswith(suffix)
EndsWith(str, suffix) ==
    /\ Len(str) >= Len(suffix)
    /\ SubSeq(str, Len(str) - Len(suffix) + 1, Len(str)) = suffix

\* str[:-len(suffix)]
StripSuffix(str, suffix) == SubSeq(str, 1, Len(str) - Len(suffix))

\* Graph.add / a triple of a graph
Triple(s, p, o) == [s |-> s, p |-> p, o |-> o, g |-> {}]

\* BNode() and Graph(): the n-th fresh blank node, the n-th fresh graph
Tally(n) == [i \in 1..n |-> "i"]
BNodeTerm(n) == <<"_:b">> \o Tally(n)
GraphTerm(n) == <<"_:g">> \o Tally(n)

\* (BNode(), BSH['offendingTriple'], g)
AttachmentOnSharedNode(n, inner) ==
    [s |-> BNodeTerm(1), p |-> OffendingTriple, o |-> GraphTerm(1), g |-> inner]

Attachment(n, inner) ==
    [s |-> BNodeTerm(n), p |-> OffendingTriple, o |-> GraphTerm(n), g |-> inner]

Attachments(violation) == {t \in violation : t.p = OffendingTriple}

\* ------------------------------------------------------------ universes
Report == <<"_:report">>
V1 == <<"_:v1">>
V2 == <<"_:v2">>
Meter1 == EXns \o <<"Meter1">>
Point1 == EXns \o <<"Point1">>
Point2 == EXns \o <<"Point2">>
Pump9 == URNns \o <<"Pump9">>
hasPoint == BRICKns \o <<"hasPoint">>
feeds == BRICKns \o <<"feeds">>
isFedBy == BRICKns \o <<"isFedBy">>
hasPointDomainShape == BSHns \o <<"hasPoint", "DomainShape">>
OtherShape == BSHns \o <<"OtherShape">>

Sh(name) == SHns \o <<name>>

\* Triples the engine may report besides the report's own sh:conforms.
ResultTriples ==
    { Triple(Report, SHresult, V1), Triple(Report, SHresult, V2),
      Triple(V1, SHresult, V2),
      Triple(V1, Sh("focusNode"), Meter1), Triple(V1, Sh("focusNode"), Pump9),
      Triple(V1, Sh("resultPath"), feeds), Triple(V1, Sh("resultPath"), isFedBy),
      Triple(V1, Sh("value"), Point1),
      Triple(V1, Sh("sourceShape"), hasPointDomainShape),
      Triple(V1, Sh("sourceShape"), OtherShape),
      Triple(V2, Sh("focusNode"), Meter1), Triple(V2, Sh("resultPath"), feeds) }

SessionTriples ==
    { Triple(Report, SHresult, V1), Triple(V1, Sh("focusNode"), Meter1),
      Triple(V1, Sh("resultPath"), feeds),
      Triple(V1, Sh("sourceShape"), hasPointDomainShape) }

ConformsTriple(c) ==
    Triple(Report, Sh("conforms"), IF c THEN <<"true">> ELSE <<"false">>)

ResultsNs == << <<"sh", SHns>> >>

\* What pyshacl.validate can return on violation triples drawn from universe:
\* it conforms exactly when it reports no sh:result.
EngineOutputs(universe, max) ==
    { [conforms |-> FALSE,
       graph |-> [triples |-> g \cup {ConformsTriple(FALSE)}, ns |-> ResultsNs],
       text |-> "Conforms: False"] :
         g \in {x \in SUBSET universe :
                   Cardinality(x) <= max /\ \E t \in x : t.p = SHresult} }
    \cup
    { [conforms |-> TRUE,
       graph |-> [triples |-> {ConformsTriple(TRUE)}, ns |-> ResultsNs],
       text |-> "Conforms: True"] }

\* pyshacl.validate raising instead of returning
EngineError == "ReportableRuntimeError"

DataTriples ==
    { Triple(Meter1, hasPoint, Point1), Triple(Meter1, hasPoint, Point2),
      Triple(Point1, hasPoint, Point2) }

DataNs ==
    { <<>>,
      << <<"ex", EXns>>, <<"brick", BRICKns>> >>,
      << <<"ex", EXns>> >>,
      << <<"bldg", EXns>>, <<"ex", EXns>>, <<"brick", BRICKns>> >>,
      << <<"brick", OLDns>>, <<"ex", EXns>> >>,
      << <<"ex", EXns>>, <<"sh", SHALTns>>, <<"brick", BRICKns>> >> }

DataGraphs == { [triples |-> d, ns |-> n] : d \in SUBSET DataTriples, n \in DataNs }

SessionDataGraphs ==
    { dg \in DataGraphs :
        /\ dg.triples \in {{}, {Triple(Meter1, hasPoint, Point1)}}
        /\ dg.ns \in { <<>>, << <<"ex", EXns>>, <<"brick", BRICKns>> >>,
                       << <<"ex", EXns>>, <<"sh", SHALTns>>, <<"brick", BRICKns>> >> } }

\* Graph.namespaces() of ontologies/Brick.ttl
BrickNs == << <<"brick", BRICKns>>, <<"rdfs", RDFSns>> >>

NoGraph == [triples |-> {}, ns |-> <<>>]
EmptyDict == [p \in {} |-> <<>>]
NoViolationDict == [defined |-> FALSE, items |-> <<>>]

\* --------------------------------------------------- namespace registry
\* One iteration of the loop of __buildNamespaceDict.
BindSilently(dict, prefix, path) ==
    [dict |-> [p \in DOMAIN dict \cup {prefix} |->
                  IF p = prefix THEN path ELSE dict[p]],
     err |-> NoError]

Bind(dict, prefix, path) ==
    IF ~((prefix \notin DOMAIN dict) \/ (path = dict[prefix]))
    THEN [dict |-> dict, err |-> "AssertionError: Same prefix"]
    ELSE IF prefix \notin DOMAIN dict
         THEN [dict |-> dict @@ (prefix :> path), err |-> NoError]
         ELSE [dict |-> dict, err |-> NoError]

RECURSIVE BuildNamespaceDict(_, _)
BuildNamespaceDict(dict, nss) ==
    IF nss = <<>> THEN [dict |-> dict, err |-> NoError]
    ELSE LET b == Bind(dict, Head(nss)[1], Head(nss)[2])
         IN IF b.err # NoError THEN b
            ELSE BuildNamespaceDict(b.dict, Tail(nss))

\* ------------------------------------------------------------- queries
\* A prefixed name of a query, resolved with initNs = namespaceDict.
Resolve(dict, prefix, local) == dict[prefix] \o local

\* __violationPredicateObj: the outcomes [o, err] of looking up the object of
\* prefix:local in one violation graph.  With several rows and no mustFind
\* the first row of the result is returned, whichever the store yields first.
ViolationPredicateObj(violation, dict, prefix, local, mustFind) ==
    IF prefix \notin DOMAIN dict
    THEN {[o |-> None, err |-> "Exception: Unknown namespace prefix"]}
    ELSE LET res == {t \in violation : t.p = Resolve(dict, prefix, local)}
         IN IF mustFind /\ Cardinality(res) # 1
            THEN {[o |-> None, err |-> "AssertionError: Must have predicate"]}
            ELSE IF res # {}
                 THEN {[o |-> t.o, err |-> NoError] : t \in res}
                 ELSE {[o |-> None, err |-> NoError]}

\* The rows of SELECT ?s ?p ?o WHERE {s p ?o .} on the data graph.
Match(graph, s, p) == {t \in graph.triples : t.s = s /\ t.p = p}

\* __queryDataGraph with s and p bound and o a wildcard
QueryDataGraph(graph, dict, sPrefix, sLocal, pPrefix, pLocal) ==
    LET res == Match(graph, Resolve(dict, sPrefix, sLocal),
                     Resolve(dict, pPrefix, pLocal))
    IN IF res = {}
       THEN [res |-> {}, err |-> "AssertionError: Must have at least one triple"]
       ELSE [res |-> res, err |-> NoError]

\* --------------------------------------------------------- the resolver
Fail(violation, err) == [g |-> violation, err |-> err]

\* g.add((focusNode, resultPath, valueNode)), line 206
PathTripleNoAbsence(focusNode, resultPath, valueNode) ==
    Triple(focusNode, resultPath, IF valueNode = None THEN focusNode ELSE valueNode)

PathTriple(focusNode, resultPath, valueNode) ==
    Triple(focusNode, resultPath, valueNode)

\* g.add((focusNode, URIRef(fullPath), o)), line 235
DomainTriple(focusNode, fullPath, o) == Triple(focusNode, fullPath, o)

\* The loop of lines 233-236: one attachment per row, blank nodes n, n+1, ...
\* (blank-node identity is up to renaming, so the rows are taken in a fixed order)
RECURSIVE AttachRows(_, _, _, _, _)
AttachRows(violation, rows, focusNode, fullPath, n) ==
    IF rows = {} THEN violation
    ELSE LET row == CHOOSE r \in rows : TRUE
         IN AttachRows(
                violation \cup
                    {Attachment(n, {DomainTriple(focusNode, fullPath, row.o)})},
                rows \ {row}, focusNode, fullPath, n + 1)

\* Lines 195-208: the violation has a result path.
PathBranch(violation, dict, resultPath, n) ==
    UNION { IF f.err # NoError THEN {Fail(violation, f.err)}
            ELSE UNION { IF v.err # NoError THEN {Fail(violation, v.err)}
                         ELSE {[g |-> violation \cup
                                   {Attachment(n, {PathTriple(f.o, resultPath, v.o)})},
                                err |-> NoError]} :
                         v \in ViolationPredicateObj(violation, dict, "sh",
                                                     <<"value">>, FALSE) } :
            f \in ViolationPredicateObj(violation, dict, "sh", <<"focusNode">>, TRUE) }

\* Lines 224-237: the source shape is named <P>DomainShape.
DomainShapeBranch(violation, dict, data, shapeName, n) ==
    LET brickProp == StripSuffix(shapeName, DomainShapeSuffix)
    IN IF "brick" \notin DOMAIN dict THEN {Fail(violation, "KeyError: brick")}
       ELSE LET fullPath == dict["brick"] \o brickProp
                f == CHOOSE x \in ViolationPredicateObj(violation, dict, "sh",
                                                        <<"focusNode">>, TRUE) : TRUE
                parts == Split(f.o, "#")
            IN IF f.err # NoError THEN {Fail(violation, f.err)}
               ELSE IF Len(parts) # 2 THEN {Fail(violation, "ValueError: unpack")}
               ELSE LET namespaces ==
                            {key \in DOMAIN dict : parts[1] \o <<"#">> = dict[key]}
                    IN IF namespaces = {}
                       THEN {Fail(violation, "AssertionError: Must find a prefix")}
                       ELSE LET q == QueryDataGraph(data, dict,
                                         CHOOSE key \in namespaces : TRUE, parts[2],
                                         "brick", brickProp)
                            IN IF q.err # NoError THEN {Fail(violation, q.err)}
                               ELSE {[g |-> AttachRows(violation, q.res, f.o,
                                                       fullPath, n),
                                      err |-> NoError]}

\* Lines 212-242: the violation has no result path.
NoPathBranch(violation, dict, data, n) ==
    LET ss == CHOOSE x \in ViolationPredicateObj(violation, dict, "sh",
                                                 <<"sourceShape">>, TRUE) : TRUE
        parts == Split(ss.o, "#")
    IN IF ss.err # NoError THEN {Fail(violation, ss.err)}
       ELSE IF Len(parts) # 2 THEN {Fail(violation, "ValueError: unpack")}
       ELSE IF EndsWith(parts[2], DomainShapeSuffix)
            THEN DomainShapeBranch(violation, dict, data, parts[2], n)
            \* line 240 reads the local g, which nothing has assigned on this path
            ELSE {Fail(violation, "UnboundLocalError: g")}

\* __triplesForOneViolation: the outcomes [g, err], g the violation graph as
\* the call leaves it; n numbers the first blank node the call creates.
TriplesForOneViolation(violation, dict, data, n) ==
    UNION { IF rp.err # NoError THEN {Fail(violation, rp.err)}
            ELSE IF Truthy(rp.o) THEN PathBranch(violation, dict, rp.o, n)
            ELSE NoPathBranch(violation, dict, data, n) :
            rp \in ViolationPredicateObj(violation, dict, "sh",
                                         <<"resultPath">>, FALSE) }

\* ---------------------------------------------------------- the grouper
\* Round 1, line 133: the triples that open a violation
OpensViolation(t) == t.p = SHresult

\* Round 1, lines 132-136, over the sh:result triples in the order the store
\* yields them: a new key gets an empty graph, a known key is skipped.
RECURSIVE Round1(_, _)
Round1(items, links) ==
    IF links = <<>> THEN items
    ELSE Round1(IF \E i \in 1..Len(items) : items[i].k = Head(links).o
                THEN items
                ELSE Append(items, [k |-> Head(links).o, g |-> {}]),
                Tail(links))

\* Round 2, line 139: the triples of the violation keyed k
BelongsByObject(t, k) == t.s = k \/ t.o = k

Belongs(t, k) == t.s = k

\* Round 2, lines 138-140, over the triples still to visit
RECURSIVE Round2(_, _)
Round2(items, triples) ==
    IF triples = {} THEN items
    ELSE LET t == CHOOSE x \in triples : TRUE
         IN Round2([i \in 1..Len(items) |->
                       IF Belongs(t, items[i].k)
                       THEN [items[i] EXCEPT !.g = @ \cup {t}]
                       ELSE items[i]],
                   triples \ {t})

Perms(S) ==
    {f \in [1..Cardinality(S) -> S] : \A i, j \in 1..Cardinality(S) :
                                          f[i] = f[j] => i = j}

\* violationDict after the two rounds, for every order of iteration
Grouped(results) ==
    {Round2(Round1(<<>>, links), results.triples) :
        links \in Perms({t \in results.triples : OpensViolation(t)})}

AttachmentCount(items) ==
    Cardinality(UNION {Attachments(items[i].g) : i \in 1..Len(items)})

\* Lines 143-144: resolve items[i], items[i+1], ...; the first exception ends it.
RECURSIVE ResolveFrom(_, _, _, _)
ResolveFrom(items, i, dict, data) ==
    IF i > Len(items) THEN {[items |-> items, err |-> NoError, at |-> None]}
    ELSE UNION { IF r.err # NoError
                 THEN {[items |-> items, err |-> r.err, at |-> items[i].k]}
                 ELSE ResolveFrom([items EXCEPT ![i].g = r.g], i + 1, dict, data) :
                 r \in TriplesForOneViolation(items[i].g, dict, data,
                                              AttachmentCount(items) + 1) }

\* __attachOffendingTriples: the outcomes of one call
AttachOffendingTriples(results, data) ==
    LET b1 == BuildNamespaceDict(EmptyDict, results.ns)
        b2 == IF b1.err # NoError THEN b1 ELSE BuildNamespaceDict(b1.dict, data.ns)
    IN IF b2.err # NoError
       THEN {[namespaceDict |-> b2.dict, grouped |-> FALSE, items |-> <<>>,
              err |-> b2.err, at |-> None]}
       ELSE {[namespaceDict |-> b2.dict, grouped |-> TRUE, items |-> r.items,
              err |-> r.err, at |-> r.at] :
             r \in UNION {ResolveFrom(items, 1, b2.dict, data) :
                          items \in Grouped(results)}}

\* ------------------------------------------------------------ validate
\* Lines 82-84: violationsG = violationsG + v for every violation
PackDescriptiveOnly(items) ==
    UNION {items[i].g \ Attachments(items[i].g) : i \in 1..Len(items)}

PackViolations(items) == UNION {items[i].g : i \in 1..Len(items)}

NoReturn == [kind |-> "none", conforms |-> FALSE, graph |-> {}, text |-> "",
             error |-> NoError, at |-> None]

Returned(c, graph, text) ==
    [kind |-> "returned", conforms |-> c, graph |-> graph, text |-> text,
     error |-> NoError, at |-> None]

Raised(err, at) ==
    [kind |-> "raised", conforms |-> FALSE, graph |-> {}, text |-> "",
     error |-> err, at |-> at]

\* violationList()
ViolationList ==
    IF ~violationDict.defined THEN [err |-> "AttributeError: violationDict", list |-> <<>>]
    ELSE [err |-> NoError,
          list |-> [i \in 1..Len(violationDict.items) |-> violationDict.items[i].g]]

\* accumulatedNamespaces()
AccumulatedNamespaces == namespaceDict

\* The state after Validate(attachOffender)
Init ==
    /\ attachOffender \in BOOLEAN
    /\ namespaceDict = BuildNamespaceDict(EmptyDict, BrickNs).dict
    /\ violationDict = NoViolationDict
    /\ data_graph = NoGraph
    /\ results_graph = NoGraph
    /\ conforms = FALSE
    /\ results_text = ""
    /\ ret = NoReturn
    /\ lastOp = "__init__"

\* validate(data_graph) when pyshacl.validate raises: line 69 has run
ValidateEngineRaises(data) ==
    /\ data_graph' = data
    /\ ret' = Raised(EngineError, None)
    /\ lastOp' = "validate"
    /\ UNCHANGED <<attachOffender, namespaceDict, violationDict, results_graph,
                   conforms, results_text>>

\* validate(data_graph) with the engine answering out
Validate(data, out) ==
    /\ data_graph' = data
    /\ conforms' = out.conforms
    /\ results_graph' = out.graph
    /\ results_text' = out.text
    /\ lastOp' = "validate"
    /\ UNCHANGED attachOffender
    /\ IF out.conforms \/ ~attachOffender
       THEN /\ ret' = Returned(out.conforms, out.graph.triples, out.text)
            /\ UNCHANGED <<namespaceDict, violationDict>>
       ELSE \E a \in AttachOffendingTriples(out.graph, data) :
               /\ namespaceDict' = a.namespaceDict
               /\ violationDict' = IF a.grouped
                                   THEN [defined |-> TRUE, items |-> a.items]
                                   ELSE violationDict
               /\ ret' = IF a.err # NoError THEN Raised(a.err, a.at)
                         ELSE Returned(out.conforms, PackViolations(a.items), out.text)

\* __triplesForOneViolation run once more on the i-th violation, which an
\* earlier run has enriched
ReResolve(i) ==
    /\ violationDict.defined
    /\ i \in 1..Len(violationDict.items)
    /\ Attachments(violationDict.items[i].g) # {}
    /\ Cardinality(Attachments(violationDict.items[i].g)) < MaxAttachments
    /\ \E r \in TriplesForOneViolation(violationDict.items[i].g, namespaceDict,
                                       data_graph,
                                       AttachmentCount(violationDict.items) + 1) :
          violationDict' = [violationDict EXCEPT !.items[i].g = r.g]
    /\ lastOp' = "__triplesForOneViolation"
    /\ UNCHANGED <<attachOffender, namespaceDict, data_graph, results_graph,
                   conforms, results_text, ret>>

\* Any sequence of validate calls on one validator.
Next ==
    \/ \E data \in SessionDataGraphs,
          out \in EngineOutputs(SessionTriples, MaxTriples) : Validate(data, out)
    \/ \E data \in SessionDataGraphs : ValidateEngineRaises(data)

Spec == Init /\ [][Next]_vars

\* One validate call on a fresh validator, then re-resolution of its violations.
NextPipeline ==
    \/ /\ lastOp = "__init__"
       /\ \E data \in DataGraphs, out \in EngineOutputs(ResultTriples, MaxTriples) :
             Validate(data, out)
    \/ /\ lastOp = "__init__"
       /\ \E data \in DataGraphs : ValidateEngineRaises(data)
    \/ \E i \in 1..Len(violationDict.items) : ReResolve(i)

SpecPipeline == Init /\ [][NextPipeline]_vars

\* ------------------------------------------------------------ properties
\* The last validate call went through __attachOffendingTriples.
Attached ==
    /\ lastOp # "__init__"
    /\ ret.error # EngineError
    /\ ~conforms
    /\ attachOffender

\* ... and got past the namespace registry, so the grouper ran.
GroupingRan == Attached /\ ret.error # "AssertionError: Same prefix"

Items == violationDict.items
Objects(g, name) == {t.o : t \in {x \in g : x.p = Sh(name)}}
InnerGraphs(g) == {a.g : a \in Attachments(g)}
RaisedAt(i) == ret.kind = "raised" /\ ret.at = Items[i].k
\* The resolver ran on the i-th violation and returned.
Resolved(i) ==
    \/ ret.kind = "returned"
    \/ ret.kind = "raised" /\ \E j \in 1..Len(Items) : i < j /\ ret.at = Items[j].k

FirstBound(prefix, nss) ==
    nss[CHOOSE i \in 1..Len(nss) :
            nss[i][1] = prefix /\ \A j \in 1..(i - 1) : nss[j][1] # prefix][2]

ConflictingPairs(nss) ==
    {ij \in (1..Len(nss)) \X (1..Len(nss)) :
        ij[1] < ij[2] /\ nss[ij[1]][1] = nss[ij[2]][1] /\ nss[ij[1]][2] # nss[ij[2]][2]}

C2_RegistryAdditiveOnly ==
    [][\A p \in DOMAIN namespaceDict :
          p \in DOMAIN namespaceDict' /\ namespaceDict'[p] = namespaceDict[p]]_vars

\* C3: after the grouper the keys of the violation dictionary are the objects
\* of the sh:result triples, one sub-graph each, and a results-graph triple is
\* in a sub-graph exactly when its subject is that sub-graph's key.
C3_GroupingPartitions ==
    GroupingRan =>
        /\ violationDict.defined
        /\ {Items[i].k : i \in 1..Len(Items)}
              = {t.o : t \in {x \in results_graph.triples : x.p = SHresult}}
        /\ \A i, j \in 1..Len(Items) : Items[i].k = Items[j].k => i = j
        /\ \A t \in results_graph.triples : \A i \in 1..Len(Items) :
              (t \in Items[i].g) <=> (t.s = Items[i].k)

C3_Witness ==
    /\ GroupingRan
    /\ Len(Items) = 2
    /\ \E i \in 1..2 : Cardinality(Items[i].g \cap results_graph.triples) >= 2
    /\ \E t \in results_graph.triples : t.s = V1 /\ t.o = V2

\* C4: when the most recent validate call reported conforms = true,
\* violationList() returns the empty list.
C4_ConformingListIsEmpty ==
    (lastOp = "validate" /\ ret.kind = "returned" /\ ret.conforms)
        => ViolationList = [err |-> NoError, list |-> <<>>]

\* The violation has no result path and one source shape whose local name
\* does not end in DomainShape.
Unhandled(g) ==
    /\ Objects(g, "resultPath") = {}
    /\ Cardinality(Objects(g, "sourceShape")) = 1
    /\ \A ss \in Objects(g, "sourceShape") :
          /\ Len(Split(ss, "#")) = 2
          /\ ~EndsWith(Split(ss, "#")[2], DomainShapeSuffix)

\* C5: the resolver returns normally on an unhandled violation, leaving it
\* without attachment: validate never raises at such a violation.
C5_UnhandledIsNotFatal ==
    GroupingRan =>
        \A i \in 1..Len(Items) :
            Unhandled(Items[i].g) => ~RaisedAt(i) /\ Attachments(Items[i].g) = {}

ConsistencyErrors ==
    {"AssertionError: Must have predicate", "AssertionError: Must find a prefix"}

\* C6: after a validate call that a fatal consistency error of the resolver
\* aborted, violationList() exposes no sub-graph of that call.
C6_AbortExposesNothing ==
    (lastOp = "validate" /\ ret.kind = "raised" /\ ret.error \in ConsistencyErrors)
        => ViolationList.list = <<>>

\* C7: validate returns the engine's conforms flag and text unchanged; its
\* graph is the engine's results graph when conforming or when attachOffender
\* is off, and otherwise holds exactly the triples of the violation
\* sub-graphs, attachments included.
C7_ReturnValue ==
    (lastOp = "validate" /\ ret.kind = "returned") =>
        /\ ret.conforms = conforms
        /\ ret.text = results_text
        /\ IF conforms \/ ~attachOffender
           THEN ret.graph = results_graph.triples
           ELSE /\ \A t \in ret.graph : \E i \in 1..Len(Items) : t \in Items[i].g
                /\ \A i \in 1..Len(Items) : Items[i].g \subseteq ret.graph
                /\ \A t \in results_graph.triples :
                      (\E i \in 1..Len(Items) : t.s = Items[i].k) => t \in ret.graph

C7_Witness ==
    /\ lastOp = "validate"
    /\ ret.kind = "returned"
    /\ ~conforms /\ attachOffender
    /\ Len(Items) = 2
    /\ \A i \in 1..2 : \E a \in Attachments(Items[i].g) : a \in ret.graph

\* The violation has a result path, one focus node and no sh:value.
MinCountLike(g) ==
    /\ Objects(g, "resultPath") # {}
    /\ Cardinality(Objects(g, "focusNode")) = 1
    /\ Objects(g, "value") = {}

DomainShapeLike(g) ==
    /\ Objects(g, "resultPath") = {}
    /\ Cardinality(Objects(g, "sourceShape")) = 1
    /\ \A ss \in Objects(g, "sourceShape") :
          /\ Len(Split(ss, "#")) = 2
          /\ EndsWith(Split(ss, "#")[2], DomainShapeSuffix)
    /\ Cardinality(Objects(g, "focusNode")) = 1
    /\ \A f \in Objects(g, "focusNode") :
          /\ Len(Split(f, "#")) = 2
          /\ \E key \in DOMAIN namespaceDict :
                namespaceDict[key] = Split(f, "#")[1] \o <<"#">>

\* The Brick property that the shape <P>DomainShape is about.
BrickProperty(ss) == BRICKns \o StripSuffix(Split(ss, "#")[2], DomainShapeSuffix)

\* C9: on such a violation the resolver leaves one attachment per data-graph
\* triple (f, brick:P, o), each holding exactly that triple.
C9_DomainShapeAttachesMatches ==
    (lastOp = "validate" /\ GroupingRan) =>
        \A i \in 1..Len(Items) :
            (DomainShapeLike(Items[i].g) /\ (Resolved(i) \/ RaisedAt(i))) =>
                \A f \in Objects(Items[i].g, "focusNode") :
                \A ss \in Objects(Items[i].g, "sourceShape") :
                    LET matches == {t \in data_graph.triples :
                                       t.s = f /\ t.p = BrickProperty(ss)}
                    IN /\ InnerGraphs(Items[i].g) = {{t} : t \in matches}
                       /\ Cardinality(Attachments(Items[i].g)) = Cardinality(matches)

\* C10 as claimed: a second run of the resolver on an enriched violation
\* leaves the number of attachments and their inner triples unchanged.
C10_ReResolveIdempotent ==
    [][lastOp' = "__triplesForOneViolation" =>
          \A i \in 1..Len(Items) :
              /\ Cardinality(Attachments(violationDict'.items[i].g))
                    = Cardinality(Attachments(Items[i].g))
              /\ InnerGraphs(violationDict'.items[i].g) = InnerGraphs(Items[i].g)]_vars

\* A violation whose lookups have one answer each.
SinglePick(g) ==
    Cardinality(Objects(g, "resultPath")) <= 1 /\ Cardinality(Objects(g, "value")) <= 1

\* The data-graph triples that the domain-shape query of the violation matches.
QueryMatches(g) ==
    {t \in data_graph.triples :
        /\ t.s \in Objects(g, "focusNode")
        /\ \E ss \in Objects(g, "sourceShape") :
              t.p = namespaceDict["brick"] \o
                        StripSuffix(Split(ss, "#")[2], DomainShapeSuffix)}

\* C10 as amended: a second run of the resolver on an enriched violation keeps
\* every triple of every sub-graph and adds attachments to that violation
\* alone: one if it has a result path, else one per matching data-graph
\* triple; the inner triples stay the same set when each lookup has one answer.
C10_ReResolveAppends ==
    [][lastOp' = "__triplesForOneViolation" =>
          \E i \in 1..Len(Items) :
              LET old == Items[i].g
                  new == violationDict'.items[i].g
              IN /\ violationDict' = [violationDict EXCEPT !.items[i].g = new]
                 /\ old \subseteq new
                 /\ new \ old \subseteq Attachments(new)
                 /\ Cardinality(Attachments(new)) =
                       Cardinality(Attachments(old)) +
                           (IF Objects(old, "resultPath") # {} THEN 1
                            ELSE Cardinality(QueryMatches(old)))
                 /\ SinglePick(old) => InnerGraphs(new) = InnerGraphs(old)]_vars

C10_Witness ==
    /\ lastOp = "__triplesForOneViolation"
    /\ \E i \in 1..Len(Items) :
          /\ Cardinality(Attachments(Items[i].g)) = 2
          /\ InnerGraphs(Items[i].g) = {{Triple(Meter1, feeds, Point1)}}

====
